---- MODULE Spec2Model ----
(***************************************************************************)
(* The genetic-algorithm branch selector of                                *)
(* src/processing/scripts/pilot_branch_selector.py (PilotBranchSelector).  *)
(*                                                                         *)
(* A Branch is a record; an individual is a sequence of indices into       *)
(* all_branches (Branch is a dataclass compared field by field, and the    *)
(* branch_id of every pool entry is unique, so an index stands for the     *)
(* object).  Floating-point scores are fixed-point integers with Scale     *)
(* units per 1.0; float('-inf') and nan are the tagged values NegInf, NaN. *)
(* Coordinates are in half degrees, so that the region boxes of __init__   *)
(* have integer corners.                                                   *)
(***************************************************************************)
EXTENDS Integers, Sequences, FiniteSets, TLC

VARIABLES
    all_branches,     \* the candidate pool handed to find_optimal_combination
    num_branches,     \* self.num_branches (k)
    min_distance_km,  \* self.min_distance_km
    pc,               \* position of find_optimal_combination
    population,       \* population (initialize_population's and the driver's)
    attempts,         \* initialize_population: attempts
    generation,       \* the loop variable of line 222
    fitness_scores,   \* fitness_scores of the current generation
    best_solution,    \* best_solution (None is <<>>)
    best_fitness,     \* best_fitness
    parents,          \* parents of the current generation
    new_population,   \* new_population under construction
    result,           \* what find_optimal_combination returned
    error,            \* the exception that ended the run, "" if none
    max_computed,     \* history: the highest fitness any generation has computed
    max_members,      \* history: the evaluated individuals that scored max_computed
    op                \* the operation under test and its inputs and outputs

vars == <<all_branches, num_branches, min_distance_km, pc, population, attempts,
          generation, fitness_scores, best_solution, best_fitness, parents,
          new_population, result, error, max_computed, max_members, op>>

(***************************************************************************)
(* Bounds of the model.                                                    *)
(***************************************************************************)
MaxCandidates == 3      \* largest pool of a driver run
HalfPopulation == 2     \* population_size is 2 * HalfPopulation (100 in the code)
MaxGenerations == 2     \* generations (50 in the code)
MantissaBits == 13      \* significant bits of a float (53 in the code)

(***************************************************************************)
(* Program constants.                                                      *)
(***************************************************************************)
AttemptFactor == 10        \* max_attempts = population_size * 10
TournamentSize == 3        \* random.sample(..., 3)
Scale == 100               \* fixed-point units per 1.0
KmPerLat == 56             \* km per half degree of latitude
KmPerLon == 38             \* km per half degree of longitude at 47 N

population_size == 2 * HalfPopulation
generations == MaxGenerations

(***************************************************************************)
(* Sequences.                                                              *)
(***************************************************************************)
Range(s) == {s[i] : i \in DOMAIN s}

Take(s, n) == SubSeq(s, 1, IF n < Len(s) THEN n ELSE Len(s))

IsInjective(s) == \A i, j \in DOMAIN s : s[i] = s[j] => i = j

\* every sequence of n distinct elements of S: the outcomes of random.sample(S, n)
Samples(S, n) == {s \in [1..n -> S] : IsInjective(s)}

RECURSIVE SumSeq(_)
SumSeq(s) == IF s = <<>> THEN 0 ELSE s[1] + SumSeq(Tail(s))

Abs(x) == IF x < 0 THEN -x ELSE x

RECURSIVE SqrtSearch(_, _, _)
SqrtSearch(n, lo, hi) ==
    IF lo >= hi THEN lo
    ELSE LET mid == (lo + hi + 1) \div 2
         IN  IF mid * mid <= n THEN SqrtSearch(n, mid, hi)
             ELSE SqrtSearch(n, lo, mid - 1)

\* floor of the square root
ISqrt(n) == SqrtSearch(n, 0, IF n < 46340 THEN n ELSE 46340)

(***************************************************************************)
(* Floating-point values: a number, float('-inf') or nan.                  *)
(***************************************************************************)
Num(v) == [kind |-> "num", val |-> v]
NegInf == [kind |-> "ninf", val |-> 0]
NaN == [kind |-> "nan", val |-> 0]

\* a > b as Python compares floats: false whenever either side is nan
FloatGt(a, b) ==
    /\ a.kind # "nan"
    /\ b.kind # "nan"
    /\ a.kind = "num"
    /\ (b.kind = "ninf" \/ a.val > b.val)

\* a < b
FloatLt(a, b) == FloatGt(b, a)

(***************************************************************************)
(* Branches and the selector's pure methods.                               *)
(***************************************************************************)
Regions ==
    <<[name |-> "north",   lat |-> <<95, 96>>, lon |-> <<16, 18>>],
      [name |-> "east",    lat |-> <<94, 95>>, lon |-> <<18, 20>>],
      [name |-> "south",   lat |-> <<92, 94>>, lon |-> <<16, 18>>],
      [name |-> "west",    lat |-> <<94, 95>>, lon |-> <<14, 16>>],
      [name |-> "central", lat |-> <<93, 94>>, lon |-> <<14, 16>>]>>

InRegion(branch, r) ==
    /\ r.lat[1] <= branch.latitude /\ branch.latitude <= r.lat[2]
    /\ r.lon[1] <= branch.longitude /\ branch.longitude <= r.lon[2]

\* get_region: the first region, in dictionary order, whose box holds the branch
get_region(branch) ==
    IF \E i \in DOMAIN Regions : InRegion(branch, Regions[i])
    THEN Regions[CHOOSE i \in DOMAIN Regions :
                    /\ InRegion(branch, Regions[i])
                    /\ \A j \in 1..(i - 1) : ~InRegion(branch, Regions[j])].name
    ELSE "other"

\* calculate_distance: the geodesic distance in whole km (rounded down); the
\* ellipsoid is flattened to a local chart with fixed km per half degree
calculate_distance(branch1, branch2) ==
    LET dlat == KmPerLat * Abs(branch1.latitude - branch2.latitude)
        dlon == KmPerLon * Abs(branch1.longitude - branch2.longitude)
    IN  ISqrt(dlat * dlat + dlon * dlon)

\* the Branch objects of an individual
Members(individual) == [i \in DOMAIN individual |-> all_branches[individual[i]]]

\* faulty variant, for sensitivity: the comparison of line 97 reversed
IsValidReversed(selected) ==
    \A i, j \in DOMAIN selected :
        i < j => ~(calculate_distance(all_branches[selected[i]],
                                      all_branches[selected[j]]) > min_distance_km)

\* faulty variant, for sensitivity: a pair at exactly min_distance_km is rejected
IsValidStrict(selected) ==
    \A i, j \in DOMAIN selected :
        i < j => ~(calculate_distance(all_branches[selected[i]],
                                      all_branches[selected[j]]) <= min_distance_km)

is_valid_combination(selected) ==
    \A i, j \in DOMAIN selected :
        i < j => ~(calculate_distance(all_branches[selected[i]],
                                      all_branches[selected[j]]) < min_distance_km)

calculate_coverage_score(selected) ==
    SumSeq([i \in DOMAIN selected |->
              Scale * Members(selected)[i].inner_population
              + (Scale * Members(selected)[i].outer_population) \div 2])

type_diversity(selected) ==
    LET m == Members(selected)
        count(t) == Cardinality({i \in DOMAIN m : m[i].branch_type = t})
        most == CHOOSE c \in {count(m[i].branch_type) : i \in DOMAIN m} :
                    \A i \in DOMAIN m : count(m[i].branch_type) <= c
    IN  Scale - (Scale * most) \div Len(selected)

NumRegions == Len(Regions)

region_diversity(selected) ==
    LET m == Members(selected)
    IN  (Scale * Cardinality({get_region(m[i]) : i \in DOMAIN m})) \div NumRegions

\* 1 - np.std / np.mean; 0 / 0 is nan in numpy (a RuntimeWarning, no exception)
income_diversity(selected) ==
    LET m == Members(selected)
        n == Len(selected)
        s == SumSeq([i \in DOMAIN m |-> m[i].income_per_capita])
        q == SumSeq([i \in DOMAIN m |-> m[i].income_per_capita * m[i].income_per_capita])
    IN  IF s = 0 THEN NaN
        ELSE Num(Scale - ISqrt(Scale * Scale * (n * q - s * s)) \div s)

calculate_diversity_score(selected) ==
    LET inc == income_diversity(selected)
    IN  IF inc.kind = "nan" THEN NaN
        ELSE Num((type_diversity(selected) + region_diversity(selected) + inc.val) \div 3)

\* a float keeps MantissaBits significant bits: the spacing of the floats at x
RECURSIVE FloatUlp(_)
FloatUlp(x) == IF x < 2 ^ MantissaBits THEN 1 ELSE 2 * FloatUlp(x \div 2)

\* the float nearest to x >= 0, ties to the even significand
FloatRound(x) ==
    LET u == FloatUlp(x)
        q == x \div u
        r == x % u
    IN  IF 2 * r < u THEN q * u
        ELSE IF 2 * r > u THEN (q + 1) * u
        ELSE IF q % 2 = 0 THEN q * u
        ELSE (q + 1) * u

\* np.add.reduce over fewer than 8 floats: added from left to right, every
\* partial sum rounded
RECURSIVE FloatAccumulate(_, _)
FloatAccumulate(acc, s) ==
    IF s = <<>> THEN acc ELSE FloatAccumulate(FloatRound(acc + s[1]), Tail(s))

FloatSum(s) == FloatAccumulate(0, s)

\* faulty variant, for sensitivity: the sum is not divided by the number of members
PerformanceSum(selected) ==
    FloatSum([i \in DOMAIN selected |-> Members(selected)[i].total_score])

\* np.mean of the members' total_score
calculate_performance_score(selected) ==
    FloatSum([i \in DOMAIN selected |-> Members(selected)[i].total_score])
        \div Len(selected)

evaluate_fitness(selected) ==
    IF ~is_valid_combination(selected) THEN NegInf
    ELSE LET d == calculate_diversity_score(selected)
         IN  IF d.kind = "nan" THEN NaN
             ELSE Num((4 * calculate_coverage_score(selected)
                       + 3 * d.val
                       + 3 * calculate_performance_score(selected)) \div 10)

(***************************************************************************)
(* The random operators.  Every function takes the outcome of its random   *)
(* draws as an argument, or is the set of the results the draws can give.  *)
(***************************************************************************)
\* the Branch objects of the pool, by index
Pool == DOMAIN all_branches

\* random.randint(1, self.num_branches - 1): empty (a ValueError) when k = 1
CrossoverPoints == 1..(num_branches - 1)

\* faulty variant, for sensitivity: the members of p2 are not filtered against the prefix
CrossoverChildNoFilter(p1, p2, point) == SubSeq(p1, 1, point) \o p2

\* lines 179-180: the prefix of p1, then the members of p2 not in that prefix
CrossoverChild(p1, p2, point) ==
    LET prefix == SubSeq(p1, 1, point)
    IN  prefix \o SelectSeq(p2, LAMBDA b : b \notin Range(prefix))

\* faulty variant, for sensitivity: the child is not checked
CrossoverRepairNoCheck(child, parent) == Take(child, num_branches)

\* faulty variant, for sensitivity: the slice of line 188 is one short
CrossoverRepairShort(child, parent) ==
    Take(IF is_valid_combination(child) THEN child ELSE parent, num_branches - 1)

\* lines 183-188: an invalid child falls back to its parent; cut to k members
CrossoverRepair(child, parent) ==
    Take(IF is_valid_combination(child) THEN child ELSE parent, num_branches)

crossover(parent1, parent2, point) ==
    <<CrossoverRepair(CrossoverChild(parent1, parent2, point), parent1),
      CrossoverRepair(CrossoverChild(parent2, parent1, point), parent2)>>

\* faulty variant, for sensitivity: the draw is not restricted to the branches outside the individual
ReplacementsAny(individual) == DOMAIN all_branches

\* line 198: the branches random.choice draws from; empty is an IndexError
Replacements(individual) == {b \in Pool : b \notin Range(individual)}

\* lines 199-200
TestIndividual(individual, idx, new_branch) == [individual EXCEPT ![idx] = new_branch]

\* mutate raises when the mutation is triggered and every branch of the pool is
\* already in the individual
MutateRaises(individual) == Replacements(individual) = {}

\* what mutate can return: the individual itself (no mutation, or max_attempts
\* invalid draws), or the first valid test_individual
MutateResults(individual) ==
    {individual} \cup
    {TestIndividual(individual, idx, b) :
        <<idx, b>> \in {x \in (DOMAIN individual) \X Replacements(individual) :
                          is_valid_combination(TestIndividual(individual, x[1], x[2]))}}

\* max(tournament, key=lambda x: x[1])[0]: the first entry no later one exceeds
TournamentWinner(pop, scores, t) ==
    LET pick(a, b) == IF FloatGt(scores[b], scores[a]) THEN b ELSE a
    IN  pop[pick(pick(t[1], t[2]), t[3])]

\* the winners random.sample(..., 3) can produce
TournamentWinners(pop, scores) ==
    {TournamentWinner(pop, scores, t) : t \in Samples(DOMAIN pop, TournamentSize)}

\* select_parents: one tournament for each slot of the population
select_parents(pop, scores) == [DOMAIN pop -> TournamentWinners(pop, scores)]

\* np.argmax: the first nan if there is one, else the first maximum
ArgMax(scores) ==
    IF \E i \in DOMAIN scores : scores[i].kind = "nan"
    THEN CHOOSE i \in DOMAIN scores :
            /\ scores[i].kind = "nan"
            /\ \A j \in 1..(i - 1) : scores[j].kind # "nan"
    ELSE CHOOSE i \in DOMAIN scores :
            /\ \A j \in DOMAIN scores : ~FloatGt(scores[j], scores[i])
            /\ \A j \in 1..(i - 1) : FloatGt(scores[i], scores[j])

(***************************************************************************)
(* The pools and configurations of a driver run.  Branch 1 stands at the   *)
(* base point; every other branch stands either there too (0 km from it)   *)
(* or at a place of its own, one degree (112 km) north of the place of the *)
(* branch before it.  The                                                  *)
(* branches listed in zero have no income record: scoring_analysis.py      *)
(* line 169 gives them income 0.                                           *)
(***************************************************************************)
MakeBranch(i, lat, income) ==
    [branch_id |-> i,
     branch_type |-> IF i % 2 = 1 THEN "M" ELSE "MM",
     latitude |-> lat,
     longitude |-> 17,
     inner_population |-> 2 * i,
     outer_population |-> 7 - i,
     income_per_capita |-> income,
     total_score |-> 10 * i]

PoolOf(n, spread, zero) ==
    [i \in 1..n |-> MakeBranch(i, IF i \in spread THEN 92 + 2 * (i - 1) ELSE 92,
                               IF i \in zero THEN 0 ELSE 2 * i)]

\* the last branch stands apart from the others, or none does
DriverPools ==
    {PoolOf(n, spread, zero) :
        n \in {MaxCandidates - 1, MaxCandidates},
        spread \in {{}, {MaxCandidates - 1}, {MaxCandidates}},
        zero \in {{}, {1, MaxCandidates}}}

\* two branches have no income; every branch stands apart from every other,
\* or (in the smaller pool) none does
DegeneratePools ==
    {PoolOf(MaxCandidates, 2..MaxCandidates, {1, 2}),
     PoolOf(MaxCandidates - 1, 2..MaxCandidates, {1, 2}),
     PoolOf(MaxCandidates - 1, {}, {1, 2})}

(***************************************************************************)
(* find_optimal_combination.                                               *)
(***************************************************************************)
NoOp == [name |-> "none"]

InitRun(pools, sizes) ==
    /\ all_branches \in pools
    /\ num_branches \in {k \in sizes : k <= Len(all_branches)}
    /\ min_distance_km = 100
    /\ pc = "initializing"
    /\ population = <<>>
    /\ attempts = 0
    /\ generation = 0
    /\ fitness_scores = <<>>
    /\ best_solution = <<>>
    /\ best_fitness = NegInf
    /\ parents = <<>>
    /\ new_population = <<>>
    /\ result = <<>>
    /\ error = ""
    /\ max_computed = NegInf
    /\ max_members = {}
    /\ op = NoOp

Init == InitRun(DriverPools, 1..MaxCandidates)

InitDegenerate == InitRun(DegeneratePools, {1, MaxCandidates - 1})

\* faulty variant, for sensitivity: one attempt too many
max_attempts_plus == population_size * AttemptFactor + 1

max_attempts == population_size * AttemptFactor

\* lines 153-157: one pass of initialize_population's loop
InitSample ==
    /\ pc = "initializing"
    /\ Len(population) < population_size
    /\ attempts < max_attempts
    /\ \E individual \in Samples(Pool, num_branches) :
          population' = IF is_valid_combination(individual)
                        THEN Append(population, individual)
                        ELSE population
    /\ attempts' = attempts + 1
    /\ UNCHANGED <<all_branches, num_branches, min_distance_km, pc, generation,
                   fitness_scores, best_solution, best_fitness, parents,
                   new_population, result, error, max_computed, max_members, op>>

\* lines 159-160 and 214-217: the ValueError is caught and [] is returned
InitRaise ==
    /\ pc = "initializing"
    /\ ~(Len(population) < population_size /\ attempts < max_attempts)
    /\ Len(population) < population_size
    /\ pc' = "done"
    /\ result' = <<>>
    /\ error' = "ValueError"
    /\ UNCHANGED <<all_branches, num_branches, min_distance_km, population, attempts,
                   generation, fitness_scores, best_solution, best_fitness, parents,
                   new_population, max_computed, max_members, op>>

\* lines 162 and 219-220: the population is returned (attempts goes out of
\* scope) and the loop is entered
InitReturn ==
    /\ pc = "initializing"
    /\ ~(Len(population) < population_size /\ attempts < max_attempts)
    /\ ~(Len(population) < population_size)
    /\ pc' = "evaluate"
    /\ attempts' = 0
    /\ best_solution' = <<>>
    /\ best_fitness' = NegInf
    /\ UNCHANGED <<all_branches, num_branches, min_distance_km, population,
                   generation, fitness_scores, parents, new_population, result,
                   error, max_computed, max_members, op>>

\* the highest of the numbers in scores and m
HighestComputed(scores, m) ==
    LET all == Range(scores) \cup {m}
    IN  CHOOSE x \in all :
           /\ x.kind # "nan"
           /\ \A y \in all : ~FloatGt(y, x)

\* faulty variant, for sensitivity: the best is replaced unless the
\* generation's best is lower
EvaluateNonStrict ==
    /\ pc = "evaluate"
    /\ generation < generations
    /\ LET scores == [i \in DOMAIN population |-> evaluate_fitness(population[i])]
           max_fitness_idx == ArgMax(scores)
           highest == HighestComputed(scores, max_computed)
       IN  /\ fitness_scores' = scores
           /\ IF ~FloatLt(scores[max_fitness_idx], best_fitness)
              THEN /\ best_fitness' = scores[max_fitness_idx]
                   /\ best_solution' = population[max_fitness_idx]
              ELSE UNCHANGED <<best_fitness, best_solution>>
           /\ max_computed' = highest
           /\ max_members' =
                 (IF highest = max_computed THEN max_members ELSE {})
                 \cup {population[i] : i \in {j \in DOMAIN scores : scores[j] = highest}}
    /\ pc' = "select"
    /\ UNCHANGED <<all_branches, num_branches, min_distance_km, population, attempts,
                   generation, parents, new_population, result, error, op>>

\* lines 222-231: score the population and update the best solution
Evaluate ==
    /\ pc = "evaluate"
    /\ generation < generations
    /\ LET scores == [i \in DOMAIN population |-> evaluate_fitness(population[i])]
           max_fitness_idx == ArgMax(scores)
           highest == HighestComputed(scores, max_computed)
       IN  /\ fitness_scores' = scores
           /\ IF FloatGt(scores[max_fitness_idx], best_fitness)
              THEN /\ best_fitness' = scores[max_fitness_idx]
                   /\ best_solution' = population[max_fitness_idx]
              ELSE UNCHANGED <<best_fitness, best_solution>>
           /\ max_computed' = highest
           /\ max_members' =
                 (IF highest = max_computed THEN max_members ELSE {})
                 \cup {population[i] : i \in {j \in DOMAIN scores : scores[j] = highest}}
    /\ pc' = "select"
    /\ UNCHANGED <<all_branches, num_branches, min_distance_km, population, attempts,
                   generation, parents, new_population, result, error, op>>

\* lines 234-237.  population and fitness_scores are not read again before
\* line 245 and line 224 assign them anew: the model drops their values here
SelectParents ==
    /\ pc = "select"
    /\ parents' \in select_parents(population, fitness_scores)
    /\ new_population' = <<>>
    /\ population' = <<>>
    /\ fitness_scores' = <<>>
    /\ pc' = "breed"
    /\ UNCHANGED <<all_branches, num_branches, min_distance_km, attempts,
                   generation, best_solution, best_fitness, result,
                   error, max_computed, max_members, op>>

\* faulty variant, for sensitivity: each pass moves on by one parent only
NextPairOverlapping == Len(new_population) \div 2 + 1

\* the pair of parents the next pass of the loop of line 238 takes
NextPair == Len(new_population) + 1

\* lines 239-243: one pass of the loop, crossover and both mutations returning;
\* after the last pass, line 245: the offspring replace the population (parents
\* and new_population are assigned again before they are read)
Breed ==
    /\ pc = "breed"
    /\ Len(new_population) < Len(parents)
    /\ \E point \in CrossoverPoints :
          LET children == crossover(parents[NextPair], parents[NextPair + 1], point)
          IN  \E m1 \in MutateResults(children[1]), m2 \in MutateResults(children[2]) :
                 LET extended == new_population \o <<m1, m2>>
                 IN  IF Len(extended) < Len(parents)
                     THEN /\ new_population' = extended
                          /\ UNCHANGED <<pc, population, generation, parents>>
                     ELSE /\ population' = extended
                          /\ generation' = generation + 1
                          /\ pc' = "evaluate"
                          /\ new_population' = <<>>
                          /\ parents' = <<>>
    /\ UNCHANGED <<all_branches, num_branches, min_distance_km, attempts,
                   fitness_scores, best_solution, best_fitness, result, error,
                   max_computed, max_members, op>>

\* line 178: random.randint(1, 0) raises ValueError outside the try of line 212
BreedCrossoverRaises ==
    /\ pc = "breed"
    /\ Len(new_population) < Len(parents)
    /\ CrossoverPoints = {}
    /\ pc' = "crashed"
    /\ error' = "ValueError"
    /\ UNCHANGED <<all_branches, num_branches, min_distance_km, population, attempts,
                   generation, fitness_scores, best_solution, best_fitness, parents,
                   new_population, result, max_computed, max_members, op>>

\* line 198: random.choice([]) raises IndexError when the mutation is triggered
\* and the pool has no branch outside the individual
BreedMutateRaises ==
    /\ pc = "breed"
    /\ Len(new_population) < Len(parents)
    /\ \E point \in CrossoverPoints :
          LET children == crossover(parents[NextPair], parents[NextPair + 1], point)
          IN  MutateRaises(children[1]) \/ MutateRaises(children[2])
    /\ pc' = "crashed"
    /\ error' = "IndexError"
    /\ UNCHANGED <<all_branches, num_branches, min_distance_km, population, attempts,
                   generation, fitness_scores, best_solution, best_fitness, parents,
                   new_population, result, max_computed, max_members, op>>

\* faulty variant, for sensitivity: with no best recorded, an individual of the last
\* population is returned
ReturnUnchecked ==
    /\ pc = "evaluate"
    /\ ~(generation < generations)
    /\ result' = (IF best_solution # <<>> THEN best_solution ELSE population[1])
    /\ pc' = "done"
    /\ UNCHANGED <<all_branches, num_branches, min_distance_km, population, attempts,
                   generation, fitness_scores, best_solution, best_fitness, parents,
                   new_population, error, max_computed, max_members, op>>

\* line 247
Return ==
    /\ pc = "evaluate"
    /\ ~(generation < generations)
    /\ result' = (IF best_solution # <<>> THEN best_solution ELSE <<>>)
    /\ pc' = "done"
    /\ UNCHANGED <<all_branches, num_branches, min_distance_km, population, attempts,
                   generation, fitness_scores, best_solution, best_fitness, parents,
                   new_population, error, max_computed, max_members, op>>

Next ==
    \/ InitSample
    \/ InitRaise
    \/ InitReturn
    \/ Evaluate
    \/ SelectParents
    \/ Breed
    \/ BreedCrossoverRaises
    \/ BreedMutateRaises
    \/ Return

Spec == Init /\ [][Next]_vars

SpecDegenerate == InitDegenerate /\ [][Next]_vars

(***************************************************************************)
(* The operators on their own.  The pool of a call: branch 1 stands at the *)
(* base point, the branches listed in near stand half a degree (56 km)     *)
(* north of it, all at one place, and every other branch at a place of its *)
(* own, at least 112 km from every other place.  A call's inputs are      *)
(* drawn in Init; its actions are the paths through the function.          *)
(***************************************************************************)
MaxOpCandidates == 4    \* size of the pool of a call
MaxMutateTries == 3     \* max_attempts of mutate (50 in the code)

OpPoolOf(n, near, zero) ==
    [i \in 1..n |-> MakeBranch(i, IF i = 1 THEN 92
                                  ELSE IF i \in near THEN 93
                                  ELSE 92 + 2 * i,
                               IF i \in zero THEN 0 ELSE 2 * i)]

OpPools(zeros) ==
    {OpPoolOf(MaxOpCandidates, near, zero) :
        near \in SUBSET (2..MaxOpCandidates), zero \in zeros}

\* the minimum distances of a call: none, one a pair stands at exactly, and
\* the next above it
OpMinDistances == {0, KmPerLat, KmPerLat + 1}

InitOp(pools, sizes) ==
    /\ all_branches \in pools
    /\ num_branches \in sizes
    /\ min_distance_km \in OpMinDistances
    /\ pc = "op"
    /\ population = <<>>
    /\ attempts = 0
    /\ generation = 0
    /\ fitness_scores = <<>>
    /\ best_solution = <<>>
    /\ best_fitness = NegInf
    /\ parents = <<>>
    /\ new_population = <<>>
    /\ result = <<>>
    /\ error = ""
    /\ max_computed = NegInf
    /\ max_members = {}

run == <<all_branches, num_branches, min_distance_km, pc, population, attempts,
         generation, fitness_scores, best_solution, best_fitness, parents,
         new_population, result, error, max_computed, max_members>>

ValidIndividuals == {s \in Samples(Pool, num_branches) : is_valid_combination(s)}

(***************************************************************************)
(* crossover(parent1, parent2) on two valid parents.                       *)
(***************************************************************************)
InitCrossover ==
    /\ InitOp(OpPools({{}}), 1..3)
    /\ \E p1 \in ValidIndividuals, p2 \in ValidIndividuals :
          op = [name |-> "crossover", stage |-> "call", parent1 |-> p1,
                parent2 |-> p2, point |-> 0, children |-> <<>>]

\* lines 178-188
CrossoverReturns ==
    /\ op.name = "crossover"
    /\ op.stage = "call"
    /\ \E point \in CrossoverPoints :
          op' = [op EXCEPT !.stage = "returned", !.point = point,
                           !.children = crossover(op.parent1, op.parent2, point)]
    /\ UNCHANGED run

\* line 178: random.randint(1, 0) raises ValueError
CrossoverRaises ==
    /\ op.name = "crossover"
    /\ op.stage = "call"
    /\ CrossoverPoints = {}
    /\ op' = [op EXCEPT !.stage = "raised"]
    /\ UNCHANGED run

NextCrossover == CrossoverReturns \/ CrossoverRaises

SpecCrossover == InitCrossover /\ [][NextCrossover]_vars

(***************************************************************************)
(* mutate(individual, all_branches) on any individual of k distinct        *)
(* branches.                                                               *)
(***************************************************************************)
mutate_max_attempts == MaxMutateTries

InitMutate ==
    /\ InitOp(OpPools({{}}), {2, 3, MaxOpCandidates})
    /\ \E individual \in Samples(Pool, num_branches) :
          op = [name |-> "mutate", stage |-> "call", individual |-> individual,
                idx |-> 0, tries |-> 0, returned |-> <<>>]

\* line 192 false, line 204
MutateSkips ==
    /\ op.name = "mutate"
    /\ op.stage = "call"
    /\ op' = [op EXCEPT !.stage = "returned", !.returned = op.individual]
    /\ UNCHANGED run

\* line 192 true, lines 193-196
MutateBegins ==
    /\ op.name = "mutate"
    /\ op.stage = "call"
    /\ \E idx \in DOMAIN op.individual :
          op' = [op EXCEPT !.stage = "loop", !.idx = idx, !.tries = 0]
    /\ UNCHANGED run

\* lines 197-203: one pass of the loop
MutateTries ==
    /\ op.name = "mutate"
    /\ op.stage = "loop"
    /\ op.tries < mutate_max_attempts
    /\ \E new_branch \in Replacements(op.individual) :
          LET test_individual == TestIndividual(op.individual, op.idx, new_branch)
          IN  IF is_valid_combination(test_individual)
              THEN op' = [op EXCEPT !.stage = "returned", !.returned = test_individual]
              ELSE op' = [op EXCEPT !.tries = op.tries + 1]
    /\ UNCHANGED run

\* line 198: random.choice of an empty list raises IndexError
MutateRaisesIndexError ==
    /\ op.name = "mutate"
    /\ op.stage = "loop"
    /\ op.tries < mutate_max_attempts
    /\ MutateRaises(op.individual)
    /\ op' = [op EXCEPT !.stage = "raised"]
    /\ UNCHANGED run

\* line 197 false, line 204
MutateGivesUp ==
    /\ op.name = "mutate"
    /\ op.stage = "loop"
    /\ ~(op.tries < mutate_max_attempts)
    /\ op' = [op EXCEPT !.stage = "returned", !.returned = op.individual]
    /\ UNCHANGED run

NextMutate ==
    \/ MutateSkips
    \/ MutateBegins
    \/ MutateTries
    \/ MutateRaisesIndexError
    \/ MutateGivesUp

SpecMutate == InitMutate /\ [][NextMutate]_vars

(***************************************************************************)
(* evaluate_fitness over a population of any individuals, valid or not.    *)
(***************************************************************************)
InitFitness ==
    /\ InitOp(OpPools({{}, {1, 2}, {1, 3}}), {2})
    /\ \E i1 \in Samples(Pool, num_branches), i2 \in Samples(Pool, num_branches) :
          op = [name |-> "evaluate_fitness", stage |-> "call",
                population |-> <<i1, i2>>, scores |-> <<>>]

\* lines 224-225
EvaluatePopulation ==
    /\ op.name = "evaluate_fitness"
    /\ op.stage = "call"
    /\ op' = [op EXCEPT !.stage = "returned",
                        !.scores = [i \in DOMAIN op.population |->
                                      evaluate_fitness(op.population[i])]]
    /\ UNCHANGED run

NextFitness == EvaluatePopulation

SpecFitness == InitFitness /\ [][NextFitness]_vars

(***************************************************************************)
(* select_parents(population, fitness_scores) on a population that can     *)
(* hold invalid individuals and individuals without income.  In the pool   *)
(* branch 3 stands 56 km from branch 1, branch 2 far from both, and        *)
(* branches 1 and 2 have no income.                                        *)
(***************************************************************************)
SelectPools == {OpPoolOf(TournamentSize, {TournamentSize}, {1, 2})}

\* the individuals of a population handed to select_parents
SelectIndividuals == {s \in Samples(Pool, num_branches) : s[1] < s[2]}

InitSelect ==
    /\ InitOp(SelectPools, {2})
    /\ min_distance_km > 0
    /\ \E pop \in [1..population_size -> SelectIndividuals] :
          op = [name |-> "select_parents", stage |-> "call", population |-> pop,
                scores |-> [i \in 1..population_size |-> evaluate_fitness(pop[i])],
                tournament |-> <<>>, parents |-> <<>>]

\* lines 168-172: one tournament
SelectTournament ==
    /\ op.name = "select_parents"
    /\ op.stage = "call"
    /\ Len(op.parents) < Len(op.population)
    /\ \E t \in Samples(DOMAIN op.population, TournamentSize) :
          op' = [op EXCEPT !.tournament = t,
                           !.parents = Append(@, TournamentWinner(op.population,
                                                                  op.scores, t))]
    /\ UNCHANGED run

\* line 173
SelectReturns ==
    /\ op.name = "select_parents"
    /\ op.stage = "call"
    /\ ~(Len(op.parents) < Len(op.population))
    /\ op' = [op EXCEPT !.stage = "returned"]
    /\ UNCHANGED run

NextSelect == SelectTournament \/ SelectReturns

SpecSelect == InitSelect /\ [][NextSelect]_vars

(***************************************************************************)
(* The scoring methods on any individual of k distinct branches, and on a  *)
(* reordering of it.  The pools of these calls vary the incomes and the    *)
(* scores: in "zero" branches 1 and 2 have no income, in "skewed" branch 3 *)
(* is far richer than the others, in "large" the total_score of branch 1   *)
(* is so large that the floats next to it are 8 apart.  RegionPool has one *)
(* branch in every region of __init__ and one outside them all.            *)
(***************************************************************************)
ScoreProfiles == {"plain", "zero", "skewed", "large"}

ScorePoolOf(near, profile) ==
    LET base == OpPoolOf(MaxOpCandidates, near, IF profile = "zero" THEN {1, 2} ELSE {})
    IN  [i \in DOMAIN base |->
           [base[i] EXCEPT
              !.income_per_capita =
                  IF profile = "skewed" /\ i = 3 THEN 60 * i ELSE @,
              !.total_score =
                  IF profile # "large" THEN @
                  ELSE IF i = 1 THEN 4 * 2 ^ MantissaBits
                  ELSE 3]]

ScorePools ==
    {ScorePoolOf(near, profile) :
        near \in SUBSET (2..MaxOpCandidates), profile \in ScoreProfiles}

RegionPlaces == <<<<95, 17>>, <<94, 19>>, <<92, 17>>, <<94, 15>>, <<93, 15>>, <<98, 17>>>>

RegionPool ==
    [i \in DOMAIN RegionPlaces |->
       [MakeBranch(i, RegionPlaces[i][1], 2 * i) EXCEPT !.longitude = RegionPlaces[i][2]]]

\* the orders of the members of an individual
Reorderings(individual) == Samples(Range(individual), Len(individual))

InitScoring ==
    /\ \/ InitOp(ScorePools, {2, 3})
       \/ InitOp({RegionPool}, {Len(RegionPool)})
    /\ \E individual \in Samples(Pool, num_branches) :
          \E permuted \in IF num_branches <= 3 THEN Reorderings(individual)
                          ELSE {individual} :
             op = [name |-> "score", stage |-> "call", individual |-> individual,
                   permuted |-> permuted, valid |-> <<>>, parts |-> <<>>,
                   diversity |-> NaN, scores |-> <<>>, fitness |-> <<>>]

\* is_valid_combination(individual) and is_valid_combination(permuted)
CallIsValid ==
    /\ op.name = "score"
    /\ op.stage = "call"
    /\ op' = [op EXCEPT !.stage = "is_valid_combination",
                        !.valid = <<is_valid_combination(op.individual),
                                    is_valid_combination(op.permuted)>>]
    /\ UNCHANGED run

\* calculate_diversity_score(individual): lines 116-117, 120-121, 124-125, 127
CallDiversity ==
    /\ op.name = "score"
    /\ op.stage = "call"
    /\ op' = [op EXCEPT !.stage = "calculate_diversity_score",
                        !.parts = <<Num(type_diversity(op.individual)),
                                    Num(region_diversity(op.individual)),
                                    income_diversity(op.individual)>>,
                        !.diversity = calculate_diversity_score(op.individual)]
    /\ UNCHANGED run

\* evaluate_fitness(individual), with the three scores it combines when the
\* individual is valid (lines 138-140), and evaluate_fitness(permuted)
CallFitness ==
    /\ op.name = "score"
    /\ op.stage = "call"
    /\ op' = [op EXCEPT !.stage = "evaluate_fitness",
                        !.scores = IF is_valid_combination(op.individual)
                                   THEN <<Num(calculate_coverage_score(op.individual)),
                                          calculate_diversity_score(op.individual),
                                          Num(calculate_performance_score(op.individual))>>
                                   ELSE <<>>,
                        !.fitness = <<evaluate_fitness(op.individual),
                                      evaluate_fitness(op.permuted)>>]
    /\ UNCHANGED run

NextScoring == CallIsValid \/ CallDiversity \/ CallFitness

SpecScoring == InitScoring /\ [][NextScoring]_vars

(***************************************************************************)
(* find_optimal_combination with the individuals as list objects.  A       *)
(* Python list is an object: best_solution = population[i] (line 231),     *)
(* parents.append(winner) (line 172) and child1 = parent1 (line 184) make  *)
(* a second reference to one list, a slice (line 188) and list.copy (line  *)
(* 199) make a new list, and test_individual[idx] = new_branch (line 200)  *)
(* writes into a list.  heap maps the identity of every list that can      *)
(* still be reached to its members; population, parents, new_population    *)
(* and best_solution hold identities (0 is None).                          *)
(***************************************************************************)
\* the identity given to the next list created
NewId(h) ==
    CHOOSE i \in 1..(Cardinality(DOMAIN h) + 1) :
        /\ i \notin DOMAIN h
        /\ \A j \in 1..(i - 1) : j \in DOMAIN h

\* a new list with the given members
Alloc(h, members) == [heap |-> (NewId(h) :> members) @@ h, ref |-> NewId(h)]

\* faulty variant, for sensitivity: no new list is made, the list itself is used
AliasList(h, r) == [heap |-> h, ref |-> r]

\* child[:self.num_branches] of a list of k members, and individual.copy()
CopyList(h, r) == Alloc(h, h[r])

\* line 200: test_individual[idx] = new_branch
StoreItem(h, r, idx, new_branch) == [h EXCEPT ![r] = [@ EXCEPT ![idx] = new_branch]]

\* the lists that are still referenced
Collect(h, live) == [r \in (DOMAIN h) \cap live |-> h[r]]

\* lines 179-188 for one child: the list built by + is cut to a new list; an
\* invalid child is replaced by a reference to its parent, which is sliced
CrossoverObject(h, p1, p2, point) ==
    LET child == CrossoverChild(h[p1], h[p2], point)
    IN  IF is_valid_combination(child)
        THEN Alloc(h, Take(child, num_branches))
        ELSE CopyList(h, p1)

\* lines 192-204: the list mutate returns and the heap it leaves.  Not
\* triggered: the argument.  Triggered: a copy is written at idx; a valid copy
\* is returned, an invalid one dropped (and, the attempts used up, the
\* argument returned)
MutateObjects(h, c) ==
    {[heap |-> h, ref |-> c]} \cup
    {LET t == CopyList(h, c)
         written == StoreItem(t.heap, t.ref, idx, new_branch)
     IN  IF is_valid_combination(written[t.ref])
         THEN [heap |-> written, ref |-> t.ref]
         ELSE [heap |-> written, ref |-> c] :
       idx \in DOMAIN h[c], new_branch \in Replacements(h[c])}

\* the pool of the runs with list objects: branches 1 and 2 at one place,
\* branch 3 apart from them
AliasPools == {PoolOf(MaxCandidates, {MaxCandidates}, {})}

InitAlias ==
    /\ InitOp(AliasPools, {2})
    /\ min_distance_km = KmPerLat
    /\ op = [name |-> "alias", stage |-> "call", heap |-> <<>>, population |-> <<>>,
             scores |-> <<>>, parents |-> <<>>, new_population |-> <<>>,
             best_solution |-> 0, best_fitness |-> NegInf, recorded |-> <<>>,
             generation |-> 0, result |-> <<>>]

\* every reference a run with list objects holds, in the order population,
\* parents, new_population, best_solution
References(o) ==
    o.population \o o.parents \o o.new_population
        \o (IF o.best_solution # 0 THEN <<o.best_solution>> ELSE <<>>)

\* the identity of list r when the referenced lists are numbered in the order
\* of their first reference
Renumbered(refs, r) ==
    LET first == CHOOSE j \in DOMAIN refs :
                    refs[j] = r /\ \A m \in 1..(j - 1) : refs[m] # r
    IN  Cardinality({refs[m] : m \in 1..first})

\* the state o without the lists nothing references.  The identity of a list
\* is not observable (the code never calls id() or compares with is), so the
\* lists are renumbered: states that differ only in identities are one state
Collected(o) ==
    LET refs == References(o)
        to(r) == Renumbered(refs, r)
        kept == Collect(o.heap, Range(refs))
    IN  [o EXCEPT
           !.heap = [n \in {to(r) : r \in DOMAIN kept} |->
                       kept[CHOOSE r \in DOMAIN kept : to(r) = n]],
           !.population = [j \in DOMAIN o.population |-> to(o.population[j])],
           !.parents = [j \in DOMAIN o.parents |-> to(o.parents[j])],
           !.new_population = [j \in DOMAIN o.new_population |-> to(o.new_population[j])],
           !.best_solution = IF o.best_solution # 0 THEN to(o.best_solution) ELSE 0]

\* lines 146-162, returning: every accepted sample is a list of its own
AliasInitialize ==
    /\ op.name = "alias"
    /\ op.stage = "call"
    /\ \E sampled \in [1..population_size -> ValidIndividuals] :
          op' = [op EXCEPT !.stage = "evaluate", !.heap = sampled,
                           !.population = [i \in 1..population_size |-> i]]
    /\ UNCHANGED run

\* lines 224-231: best_solution refers to the list in the population
AliasEvaluate ==
    /\ op.name = "alias"
    /\ op.stage = "evaluate"
    /\ op.generation < generations
    /\ LET scores == [i \in DOMAIN op.population |->
                        evaluate_fitness(op.heap[op.population[i]])]
           max_fitness_idx == ArgMax(scores)
           better == FloatGt(scores[max_fitness_idx], op.best_fitness)
       IN  op' = Collected(
                 [op EXCEPT !.stage = "select",
                            !.scores = scores,
                            !.best_fitness = IF better THEN scores[max_fitness_idx] ELSE @,
                            !.best_solution = IF better THEN op.population[max_fitness_idx]
                                              ELSE @,
                            !.recorded = IF better THEN op.heap[op.population[max_fitness_idx]]
                                         ELSE @])
    /\ UNCHANGED run

\* line 234: every parent refers to a list of the population
AliasSelect ==
    /\ op.name = "alias"
    /\ op.stage = "select"
    /\ \E selected \in select_parents(op.population, op.scores) :
          op' = Collected([op EXCEPT !.stage = "breed", !.parents = selected,
                                     !.population = <<>>, !.scores = <<>>,
                                     !.new_population = <<>>])
    /\ UNCHANGED run

\* lines 239-243 for one pair, and line 245 after the last pair
AliasBreed ==
    /\ op.name = "alias"
    /\ op.stage = "breed"
    /\ LET i == Len(op.new_population) + 1
           p1 == op.parents[i]
           p2 == op.parents[i + 1]
       IN  \E point \in CrossoverPoints :
              LET child1 == CrossoverObject(op.heap, p1, p2, point)
                  child2 == CrossoverObject(child1.heap, p2, p1, point)
              IN  \E m1 \in MutateObjects(child2.heap, child1.ref) :
                     \E m2 \in MutateObjects(m1.heap, child2.ref) :
                        LET extended == op.new_population \o <<m1.ref, m2.ref>>
                        IN  op' = Collected(
                                  IF Len(extended) < Len(op.parents)
                                  THEN [op EXCEPT !.heap = m2.heap,
                                                  !.new_population = extended]
                                  ELSE [op EXCEPT !.heap = m2.heap,
                                                  !.stage = "evaluate",
                                                  !.population = extended,
                                                  !.parents = <<>>,
                                                  !.new_population = <<>>,
                                                  !.generation = @ + 1])
    /\ UNCHANGED run

\* line 247
AliasReturn ==
    /\ op.name = "alias"
    /\ op.stage = "evaluate"
    /\ ~(op.generation < generations)
    /\ op' = [op EXCEPT !.stage = "done",
                        !.result = IF op.best_solution # 0
                                   THEN op.heap[op.best_solution] ELSE <<>>]
    /\ UNCHANGED run

NextAlias ==
    \/ AliasInitialize
    \/ AliasEvaluate
    \/ AliasSelect
    \/ AliasBreed
    \/ AliasReturn

SpecAlias == InitAlias /\ [][NextAlias]_vars

(***************************************************************************)
(* The isochrone retrieval of src/processing/scripts/geospatial_analysis.py *)
(* process_geospatial_data, get_processed_branches and                     *)
(* OpenRouteService.batch_process_locations.                               *)
(*                                                                         *)
(* A branch id is a value with its Python type: load_branches_data reads   *)
(* the id column with pd.read_csv, which gives int for a column of digits  *)
(* and str for any other; text numbers the written form of the id.  An     *)
(* output file is a record: whether it exists, whether json.load can read  *)
(* it, and its entries.                                                    *)
(***************************************************************************)
MaxLocations == 6

\* line 91: (idx + 1) % 5
CheckpointEvery == 5

BranchId(type, n) == [type |-> type, text |-> n]

\* str(id): a str keeps its value, an int becomes the str of its digits
Str(id) == [id EXCEPT !.type = "str"]

\* lines 62-68 and 80-86: the entry written for a location
ResultOf(loc, data) == [branch_id |-> loc, isochrone_data |-> data]

NoFile == [exists |-> FALSE, readable |-> FALSE, entries |-> <<>>]

Unreadable == [exists |-> TRUE, readable |-> FALSE, entries |-> <<>>]

\* _save_results: the file holds the list after json.dump
Saved(results) == [exists |-> TRUE, readable |-> TRUE, entries |-> results]

\* lines 127-144: the ids of a file's entries as strings; no file, or one
\* json.load cannot read, gives the empty set
get_processed_branches(file) ==
    IF file.exists /\ file.readable
    THEN {Str(file.entries[i].branch_id) : i \in DOMAIN file.entries}
    ELSE {}

\* lines 170-173: the branches missing from either file
branches_to_process(branches_data, processed_20min, processed_10min) ==
    LET missing(branch) == \/ Str(branch) \notin processed_20min
                           \/ Str(branch) \notin processed_10min
    IN  SelectSeq(branches_data, missing)

\* the files an earlier run can have left: none, one that cannot be read, or
\* the entries of some of the branches, in the order of the input data
EarlierFiles(branches_data) ==
    LET n == Len(branches_data)
        chosen == {S \in SUBSET (1..2) \cup {1..(n - 1)} : S \subseteq 1..n}
        kept(S) == LET in(b) == b.text \in S IN SelectSeq(branches_data, in)
    IN  {NoFile, Unreadable} \cup
        {Saved([i \in DOMAIN kept(S) |-> ResultOf(kept(S)[i], "earlier")]) : S \in chosen}

InitGeospatial ==
    /\ all_branches = <<>>
    /\ num_branches = 0
    /\ min_distance_km = 0
    /\ pc = "op"
    /\ population = <<>>
    /\ attempts = 0
    /\ generation = 0
    /\ fitness_scores = <<>>
    /\ best_solution = <<>>
    /\ best_fitness = NegInf
    /\ parents = <<>>
    /\ new_population = <<>>
    /\ result = <<>>
    /\ error = ""
    /\ max_computed = NegInf
    /\ max_members = {}
    /\ \E type \in {"int", "str"}, n \in {1, MaxLocations - 1, MaxLocations} :
          LET branches_data == [i \in 1..n |-> BranchId(type, i)]
          IN  \E file_20min \in EarlierFiles(branches_data),
                 file_10min \in EarlierFiles(branches_data) :
                 op = [name |-> "geospatial", stage |-> "main",
                       branches_data |-> branches_data,
                       file_20min |-> file_20min, file_10min |-> file_10min,
                       processed_20min |-> {}, processed_10min |-> {},
                       locations |-> <<>>, idx |-> 0,
                       existing_20min |-> <<>>, existing_10min |-> <<>>,
                       results_20min |-> <<>>, results_10min |-> <<>>,
                       initial_20min |-> file_20min, initial_10min |-> file_10min,
                       fetched_20min |-> <<>>, fetched_10min |-> <<>>]

\* process_geospatial_data, lines 155-193, up to the call of
\* batch_process_locations; it returns at line 177 when nothing is missing
ProcessGeospatialData ==
    /\ op.name = "geospatial"
    /\ op.stage = "main"
    /\ LET processed_20min == get_processed_branches(op.file_20min)
           processed_10min == get_processed_branches(op.file_10min)
           missing == branches_to_process(op.branches_data, processed_20min, processed_10min)
       IN  op' = [op EXCEPT !.processed_20min = processed_20min,
                            !.processed_10min = processed_10min,
                            !.locations = missing,
                            !.stage = IF missing = <<>> THEN "nothing" ELSE "batch"]
    /\ UNCHANGED run

\* lines 37-48: the existing entries of the files that exist
BatchLoad ==
    /\ op.name = "geospatial"
    /\ op.stage = "batch"
    /\ op.file_20min.exists => op.file_20min.readable
    /\ op.file_10min.exists => op.file_10min.readable
    /\ op' = [op EXCEPT !.existing_20min = op.file_20min.entries,
                        !.existing_10min = op.file_10min.entries,
                        !.stage = "loop"]
    /\ UNCHANGED run

\* lines 43-48: json.load raises on a file it cannot read, outside any try
BatchLoadRaises ==
    /\ op.name = "geospatial"
    /\ op.stage = "batch"
    /\ \/ op.file_20min.exists /\ ~op.file_20min.readable
       \/ op.file_10min.exists /\ ~op.file_10min.readable
    /\ op' = [op EXCEPT !.stage = "raised"]
    /\ UNCHANGED run

\* the location of the pass of the loop of line 50 under way
Location == op.locations[op.idx + 1]

\* lines 55 and 73: the id as loaded is looked up in the set of strings
Needs(processed) == Location \notin processed

\* faulty variant, for sensitivity: line 95 or 101 left out
CheckpointForgets(file, existing, results) ==
    IF results # <<>>
    THEN [file |-> Saved(existing \o results), existing |-> existing, results |-> <<>>]
    ELSE [file |-> file, existing |-> existing, results |-> results]

\* lines 92-96 and 98-102: one file's part of the intermediate save
Checkpoint(file, existing, results) ==
    IF results # <<>>
    THEN [file |-> Saved(existing \o results), existing |-> existing \o results,
          results |-> <<>>]
    ELSE [file |-> file, existing |-> existing, results |-> results]

\* lines 50-102: a pass of the loop in which no request raises
BatchLocation ==
    /\ op.name = "geospatial"
    /\ op.stage = "loop"
    /\ op.idx < Len(op.locations)
    /\ LET new_20min == IF Needs(op.processed_20min)
                        THEN <<ResultOf(Location, "fetched")>> ELSE <<>>
           new_10min == IF Needs(op.processed_10min)
                        THEN <<ResultOf(Location, "fetched")>> ELSE <<>>
           save == (op.idx + 1) % CheckpointEvery = 0
           after_20min == IF save
                          THEN Checkpoint(op.file_20min, op.existing_20min,
                                          op.results_20min \o new_20min)
                          ELSE [file |-> op.file_20min, existing |-> op.existing_20min,
                                results |-> op.results_20min \o new_20min]
           after_10min == IF save
                          THEN Checkpoint(op.file_10min, op.existing_10min,
                                          op.results_10min \o new_10min)
                          ELSE [file |-> op.file_10min, existing |-> op.existing_10min,
                                results |-> op.results_10min \o new_10min]
       IN  op' = [op EXCEPT !.idx = @ + 1,
                            !.file_20min = after_20min.file,
                            !.existing_20min = after_20min.existing,
                            !.results_20min = after_20min.results,
                            !.file_10min = after_10min.file,
                            !.existing_10min = after_10min.existing,
                            !.results_10min = after_10min.results,
                            !.fetched_20min = @ \o new_20min,
                            !.fetched_10min = @ \o new_10min]
    /\ UNCHANGED run

\* lines 56 and 74 raising, lines 104-106: the 20-minute request fails and
\* nothing is appended, or the 10-minute request fails after the 20-minute
\* result, if one was needed, has been appended; the save of line 91 is skipped
BatchRequestRaises ==
    /\ op.name = "geospatial"
    /\ op.stage = "loop"
    /\ op.idx < Len(op.locations)
    /\ \/ /\ Needs(op.processed_20min)
          /\ op' = [op EXCEPT !.idx = @ + 1]
       \/ /\ Needs(op.processed_10min)
          /\ LET new_20min == IF Needs(op.processed_20min)
                              THEN <<ResultOf(Location, "fetched")>> ELSE <<>>
             IN  op' = [op EXCEPT !.idx = @ + 1,
                                  !.results_20min = @ \o new_20min,
                                  !.fetched_20min = @ \o new_20min]
    /\ UNCHANGED run

\* lines 109-115: the final save, and the return
BatchReturn ==
    /\ op.name = "geospatial"
    /\ op.stage = "loop"
    /\ ~(op.idx < Len(op.locations))
    /\ op' = [op EXCEPT !.stage = "returned",
                        !.file_20min = IF op.results_20min # <<>>
                                       THEN Saved(op.existing_20min \o op.results_20min)
                                       ELSE @,
                        !.file_10min = IF op.results_10min # <<>>
                                       THEN Saved(op.existing_10min \o op.results_10min)
                                       ELSE @]
    /\ UNCHANGED run

NextGeospatial ==
    \/ ProcessGeospatialData
    \/ BatchLoad
    \/ BatchLoadRaises
    \/ BatchLocation
    \/ BatchRequestRaises
    \/ BatchReturn

SpecGeospatial == InitGeospatial /\ [][NextGeospatial]_vars

(***************************************************************************)
(* Claims about a run of find_optimal_combination.                         *)
(***************************************************************************)
\* every individual the run holds: the population, the selected parents and
\* the offspring built so far
Held == Range(population) \cup Range(parents) \cup Range(new_population)

\* the distance constraint, stated pair by pair
PairwiseApart(individual) ==
    \A i, j \in DOMAIN individual :
        i # j => calculate_distance(all_branches[individual[i]],
                                    all_branches[individual[j]]) >= min_distance_km

\* C1: the population initialize_population builds, the population at the start
\* of every generation, and the parents and offspring in between, contain only
\* individuals whose members are pairwise at least min_distance_km apart.
C1_PopulationValid == \A individual \in Held : PairwiseApart(individual)

\* C1 witness: in a pool where some k-subset breaks the constraint, the last
\* population bred by selection, crossover and mutation holds several
\* different individuals
C1_Witness ==
    /\ pc = "evaluate"
    /\ generation = generations
    /\ Len(population) = population_size
    /\ Cardinality(Range(population)) > 1
    /\ \E s \in Samples(Pool, num_branches) : ~PairwiseApart(s)

\* C2: every individual of a run has exactly num_branches members, all of the
\* pool, none twice.
C2_IndividualShape ==
    \A individual \in Held :
        /\ Len(individual) = num_branches
        /\ Range(individual) \subseteq Pool
        /\ IsInjective(individual)

\* C2 witness: offspring of a crossover and two mutations stand beside the
\* selected parents
C2_Witness ==
    /\ pc = "breed"
    /\ Len(parents) = population_size
    /\ Len(new_population) = 2
    /\ generation >= 1

\* C7: initialize_population never makes more than 10 x population_size
\* attempts and never holds more than population_size individuals; it raises
\* only after exactly 10 x population_size attempts with fewer than
\* population_size accepted, and returns only a population of exactly
\* population_size valid individuals.
C7_InitBounded ==
    /\ pc = "initializing" =>
          /\ attempts <= AttemptFactor * population_size
          /\ Len(population) <= population_size
          /\ Len(population) <= attempts
    /\ (pc = "done" /\ error = "ValueError") =>
          /\ attempts = AttemptFactor * population_size
          /\ Len(population) < population_size
          /\ result = <<>>
    /\ (pc = "evaluate" /\ generation = 0) =>
          /\ Len(population) = population_size
          /\ \A i \in DOMAIN population : PairwiseApart(population[i])

\* C7 witness: the attempts ran out with some, but too few, valid samples
C7_Witness ==
    /\ pc = "done"
    /\ error = "ValueError"
    /\ Len(population) > 0
    /\ attempts = AttemptFactor * population_size

\* no k-subset of the pool satisfies the distance constraint
Infeasible == \A s \in Samples(Pool, num_branches) : ~PairwiseApart(s)

\* C8: when no k-subset of the pool satisfies the constraint, the run goes from
\* initializing straight to done with the empty result and the feasibility
\* error: no generation is evaluated and no individual is accepted or returned.
C8_InfeasibleFails ==
    Infeasible =>
        /\ pc \in {"initializing", "done"}
        /\ population = <<>>
        /\ result = <<>>
        /\ generation = 0
        /\ fitness_scores = <<>>
        /\ best_solution = <<>>
        /\ pc = "done" => error = "ValueError"

\* C8 witness: an infeasible run with k = 2 has ended
C8_Witness ==
    /\ Infeasible
    /\ num_branches = 2
    /\ pc = "done"

\* k is the size of the pool and the full pool satisfies the constraint
FullSetOnly ==
    /\ num_branches = Len(all_branches)
    /\ \E s \in Samples(Pool, num_branches) : PairwiseApart(s)

\* C9: when k equals the number of candidates and the full set satisfies the
\* constraint, the run completes every generation, whatever the random draws,
\* and returns an individual whose members are the full set.
C9_FullSetConverges ==
    FullSetOnly =>
        /\ pc # "crashed"
        /\ pc = "done" => Range(result) = Pool

\* C3: a non-empty result has the highest fitness any generation of the run
\* computed, and was a member of a population in which that fitness was
\* observed.
C3_BestIsMaximum ==
    (pc = "done" /\ result # <<>>) =>
        /\ evaluate_fitness(result) = max_computed
        /\ result \in max_members

\* C12: a run in which no generation computed any fitness but the sentinel
\* (or nan) ends with the empty result, and a non-empty result is always an
\* individual of k members pairwise at least min_distance_km apart.
C12_FailureOrValid ==
    pc = "done" =>
        /\ max_computed = NegInf => result = <<>>
        /\ result # <<>> =>
              /\ Len(result) = num_branches
              /\ PairwiseApart(result)

\* C12 witness: every generation has run, in a pool with k-subsets that break
\* the constraint, and an individual is returned
C12_Witness ==
    /\ pc = "done"
    /\ generation = generations
    /\ result # <<>>
    /\ \E s \in Samples(Pool, num_branches) : ~PairwiseApart(s)

\* C13: a run whose initialization succeeded and whose generations recorded no
\* individual reports that to its caller otherwise than a run whose
\* initialization failed, which returns the empty list.
C13_OutcomesDistinct ==
    /\ (pc = "done" /\ error = "ValueError") => result = <<>>
    /\ (pc = "done" /\ error = "" /\ best_solution = <<>>) => result # <<>>

\* an individual whose income diversity is undefined
Unscorable(individual) == income_diversity(individual).kind = "nan"

\* C15: after a generation is evaluated, every individual with an undefined
\* sub-score has the sentinel fitness, the recorded best is not such an
\* individual, and no scorable individual of the generation has a fitness
\* above the recorded best.
C15_UnscorableExcluded ==
    pc = "select" =>
        /\ \A i \in DOMAIN population :
              Unscorable(population[i]) => fitness_scores[i] = NegInf
        /\ best_solution # <<>> => ~Unscorable(best_solution)
        /\ \A j \in DOMAIN population :
              ~Unscorable(population[j]) => ~FloatGt(fitness_scores[j], best_fitness)

\* C21: every run ends in done: it is never ended by an uncaught exception,
\* initialization makes at most 10 x population_size attempts, and a run that
\* got past initialization ends after exactly the configured number of
\* generations.
C21_TerminatesInDone ==
    /\ pc # "crashed"
    /\ attempts <= AttemptFactor * population_size
    /\ generation <= generations
    /\ (pc = "done" /\ error = "") => generation = generations

\* C28: with k = 1 and a pool of at least two branches, the run is not ended
\* by an exception, and it returns an individual of one member.
C28_SingleMemberRuns ==
    (num_branches = 1 /\ Len(all_branches) >= 2) =>
        /\ pc # "crashed"
        /\ pc = "done" => Len(result) = 1

(***************************************************************************)
(* Claims about the operators on their own.                                *)
(***************************************************************************)
\* C25: no step of a run lowers the recorded best fitness, and a step replaces
\* the recorded best individual or fitness only when it scores a generation
\* whose highest fitness is strictly greater than the recorded one; the new
\* record is that highest fitness and an individual that has it.
C25_BestMonotone ==
    [][/\ ~FloatLt(best_fitness', best_fitness)
       /\ (best_fitness' # best_fitness \/ best_solution' # best_solution) =>
             /\ pc = "evaluate"
             /\ FloatGt(best_fitness', best_fitness)
             /\ \E i \in DOMAIN fitness_scores' :
                   /\ fitness_scores'[i] = best_fitness'
                   /\ population[i] = best_solution'
             /\ \A j \in DOMAIN fitness_scores' :
                   ~FloatGt(fitness_scores'[j], best_fitness')]_vars

\* a later generation whose highest fitness equals the recorded best, reached
\* by an individual other than the recorded one, has left the record in place
C25_Witness ==
    /\ pc = "select"
    /\ generation >= 1
    /\ \E i \in DOMAIN fitness_scores :
          /\ fitness_scores[i] = best_fitness
          /\ \A j \in DOMAIN fitness_scores : ~FloatGt(fitness_scores[j], best_fitness)
          /\ \A j \in DOMAIN fitness_scores :
                fitness_scores[j] = best_fitness => population[j] # best_solution

\* the offspring bred so far in the generation under way, after a step
OffspringAfterStep == IF pc' = "evaluate" THEN population' ELSE new_population'

\* C26: every generation starts with population_size individuals; selection
\* fills population_size parent slots from the population; each pass of breeding
\* takes the next two parents in order and appends two offspring, each what
\* mutate can return for a child crossover returns for that pair; the
\* population_size offspring become the population of the next generation.
C26_GenerationReplaced ==
    /\ [](pc = "evaluate" => Len(population) = population_size)
    /\ [][/\ (pc = "select" /\ pc' = "breed") =>
                /\ Len(parents') = population_size
                /\ \A i \in DOMAIN parents' : parents'[i] \in Range(population)
          /\ (pc = "breed" /\ pc' # "crashed") =>
                LET n == Len(new_population)
                IN  /\ n % 2 = 0
                    /\ Len(OffspringAfterStep) = n + 2
                    /\ Take(OffspringAfterStep, n) = new_population
                    /\ pc' = "evaluate" <=> n + 2 = population_size
                    /\ pc' = "breed" => parents' = parents
                    /\ \E point \in 1..(num_branches - 1) :
                          LET children == crossover(parents[n + 1], parents[n + 2], point)
                          IN  /\ OffspringAfterStep[n + 1] \in MutateResults(children[1])
                              /\ OffspringAfterStep[n + 2] \in MutateResults(children[2])]_vars

\* C26 witness: the second pair of parents is next, it differs from the first
\* pair, and the first pair's offspring are not both copies of their parents
C26_Witness ==
    /\ pc = "breed"
    /\ Len(parents) = population_size
    /\ Len(new_population) = 2
    /\ <<parents[3], parents[4]>> # <<parents[1], parents[2]>>
    /\ <<new_population[1], new_population[2]>> # <<parents[1], parents[2]>>

\* C27: a run that went through the loop returns after generations scored
\* populations with the last offspring population left unscored; if any of the
\* scored populations held a valid individual, the result is an individual of a
\* scored population with the highest fitness computed in the run, else it
\* is empty.
C27_LastOffspringDiscarded ==
    (pc = "done" /\ error = "") =>
        /\ generation = generations
        /\ Len(population) = population_size
        /\ fitness_scores = <<>>
        /\ IF max_computed = NegInf
           THEN result = <<>>
           ELSE /\ result \in max_members
                /\ evaluate_fitness(result) = max_computed

BatchReturned == op.name = "geospatial" /\ op.stage = "returned"

\* C29: when batch_process_locations returns, an output file for which a result
\* was obtained holds the entries it had when the call began followed by the
\* results obtained in the call, once each in the order obtained; a file
\* for which none was obtained is as it was.
C29_NothingLost ==
    BatchReturned =>
        /\ op.file_20min = IF op.fetched_20min # <<>>
                           THEN Saved(op.initial_20min.entries \o op.fetched_20min)
                           ELSE op.initial_20min
        /\ op.file_10min = IF op.fetched_10min # <<>>
                           THEN Saved(op.initial_10min.entries \o op.fetched_10min)
                           ELSE op.initial_10min

\* C29 witness: a call that began with earlier entries, saved at the fifth
\* location, obtained a result after that save, and lost a request to an
\* exception
C29_Witness ==
    /\ BatchReturned
    /\ op.initial_20min.entries # <<>>
    /\ Len(op.locations) > CheckpointEvery
    /\ Len(op.fetched_20min) < Len(op.locations)
    /\ op.fetched_20min # <<>>
    /\ op.fetched_20min[Len(op.fetched_20min)].branch_id = op.locations[Len(op.locations)]
    /\ Len(op.fetched_10min) < Len(op.fetched_20min)
    /\ Len(op.existing_20min) > Len(op.initial_20min.entries)

\* the ids of a list of entries, as get_processed_branches reads them
IdsOf(entries) == [i \in DOMAIN entries |-> Str(entries[i].branch_id)]

\* C30: a result is requested and appended for a file only for a location
\* whose id get_processed_branches did not find in that file, and no file comes
\* to hold two entries of one branch id.
C30_NoRefetch ==
    op.name = "geospatial" =>
        /\ \A i \in DOMAIN op.fetched_20min :
              Str(op.fetched_20min[i].branch_id) \notin get_processed_branches(op.initial_20min)
        /\ \A i \in DOMAIN op.fetched_10min :
              Str(op.fetched_10min[i].branch_id) \notin get_processed_branches(op.initial_10min)
        /\ IsInjective(IdsOf(op.file_20min.entries))
        /\ IsInjective(IdsOf(op.file_10min.entries))

CrossoverReturned == op.name = "crossover" /\ op.stage = "returned"

\* C4: for two valid parents and any cut point, both individuals crossover
\* returns have every pair of members at least min_distance_km apart.
C4_CrossoverValid ==
    CrossoverReturned =>
        /\ PairwiseApart(op.children[1])
        /\ PairwiseApart(op.children[2])

\* C4 witness: the child built from the prefix of parent 1 breaks the
\* constraint, and parent 1 is returned in its place
C4_Witness ==
    /\ CrossoverReturned
    /\ min_distance_km > 0
    /\ ~PairwiseApart(CrossoverChild(op.parent1, op.parent2, op.point))
    /\ op.children[1] = op.parent1
    /\ op.children[2] # op.parent2

\* C5: for two valid parents and any cut point in 1..k-1, each individual
\* crossover returns has exactly k members and no branch twice.
C5_CrossoverShape ==
    CrossoverReturned =>
        \A c \in 1..2 :
            /\ Len(op.children[c]) = num_branches
            /\ IsInjective(op.children[c])
            /\ Range(op.children[c]) \subseteq Pool

\* C5 witness: the parents share a branch outside the prefix, and the child
\* built is longer than k and is cut
C5_Witness ==
    /\ CrossoverReturned
    /\ Range(op.parent1) \cap Range(op.parent2) # {}
    /\ Len(CrossoverChild(op.parent1, op.parent2, op.point)) > num_branches
    /\ op.children[1] # op.parent1

\* the first parent of child c of the call, and the parent that fills it
ParentOf(c) == IF c = 1 THEN op.parent1 ELSE op.parent2

FillerOf(c) == IF c = 1 THEN op.parent2 ELSE op.parent1

\* the constructed child c of exactly k members
CutChild(c) == Take(CrossoverChild(ParentOf(c), FillerOf(c), op.point), num_branches)

\* C22: for each child, crossover returns the constructed child of exactly k
\* members when that child satisfies the distance constraint, and the
\* corresponding parent exactly when it does not.
C22_FallbackIffInvalid ==
    CrossoverReturned =>
        \A c \in 1..2 :
            /\ PairwiseApart(CutChild(c)) => op.children[c] = CutChild(c)
            /\ ~PairwiseApart(CutChild(c)) => op.children[c] = ParentOf(c)

\* the position of branch b in the sequence s
PositionIn(s, b) == CHOOSE i \in DOMAIN s : s[i] = b

\* child is the first point members of first, then the members of filler that
\* are not among them, none left out and in filler's order, k members in all
BuiltFrom(child, first, filler, point) ==
    LET prefix == {first[i] : i \in 1..point}
    IN  /\ Len(child) = num_branches
        /\ \A i \in 1..point : child[i] = first[i]
        /\ \A i \in (point + 1)..num_branches :
              /\ child[i] \in Range(filler) \ prefix
              /\ \A b \in Range(filler) \ prefix :
                    PositionIn(filler, b) < PositionIn(filler, child[i])
                        <=> \E j \in (point + 1)..(i - 1) : child[j] = b

\* C23: a child that is not the fallback to its parent consists of the first
\* point members of its parent, 1 <= point <= k-1, then the members of the
\* other parent that are not in that prefix, in the other parent's order, cut
\* to k members; both children use the same cut point.  The child is built
\* that way whenever the whole sequence built satisfies the constraint.
C23_ChildConstruction ==
    CrossoverReturned =>
        /\ 1 <= op.point /\ op.point <= num_branches - 1
        /\ \A c \in 1..2 :
              /\ \/ op.children[c] = ParentOf(c)
                 \/ BuiltFrom(op.children[c], ParentOf(c), FillerOf(c), op.point)
              /\ PairwiseApart(CrossoverChild(ParentOf(c), FillerOf(c), op.point))
                    => BuiltFrom(op.children[c], ParentOf(c), FillerOf(c), op.point)

\* C23 witness: with 3 members and the cut after the second, both children are
\* built, differ from both parents, and take a member of the other parent
\* that is not its first
C23_Witness ==
    /\ CrossoverReturned
    /\ num_branches = 3
    /\ op.point = 2
    /\ min_distance_km > 0
    /\ \A c \in 1..2 :
          /\ op.children[c] \notin {op.parent1, op.parent2}
          /\ op.children[c][3] # FillerOf(c)[1]

\* a is at least b: the same value, or greater as floats compare
FloatGe(a, b) == a = b \/ FloatGt(a, b)

\* C24: select_parents returns as many parents as the population has
\* individuals; the parent a tournament adds is the individual of one of its
\* 3 sampled slots whose fitness is at least that of the other two, and it has
\* the sentinel fitness only when all 3 have.
C24_TournamentWinners ==
    op.name = "select_parents" =>
        /\ op.stage = "returned" => Len(op.parents) = Len(op.population)
        /\ op.tournament # <<>> =>
              \E w \in Range(op.tournament) :
                 /\ op.parents[Len(op.parents)] = op.population[w]
                 /\ \A j \in Range(op.tournament) : FloatGe(op.scores[w], op.scores[j])
                 /\ op.scores[w] = NegInf =>
                       \A j \in Range(op.tournament) : op.scores[j] = NegInf

MutateReturned == op.name = "mutate" /\ op.stage = "returned"

\* C6: what mutate returns is the individual it was given, or a valid
\* individual of the same length that differs from it at exactly one position,
\* where it holds a branch that was not in the individual given.
C6_MutateResult ==
    MutateReturned =>
        \/ op.returned = op.individual
        \/ /\ Len(op.returned) = Len(op.individual)
           /\ PairwiseApart(op.returned)
           /\ \E i \in DOMAIN op.individual :
                 /\ op.returned[i] \notin Range(op.individual)
                 /\ \A j \in DOMAIN op.individual :
                       j # i => op.returned[j] = op.individual[j]

\* C6 witness: a replacement was rejected, and a later one accepted
C6_Witness ==
    /\ MutateReturned
    /\ op.tries > 0
    /\ op.returned # op.individual

\* C10: in any population, evaluate_fitness gives every invalid individual
\* float('-inf'), and that is strictly less than what it gives every valid
\* individual of the population.
C10_InvalidBelowValid ==
    (op.name = "evaluate_fitness" /\ op.stage = "returned") =>
        \A i, j \in DOMAIN op.population :
            ~PairwiseApart(op.population[i]) =>
                /\ op.scores[i] = NegInf
                /\ PairwiseApart(op.population[j]) => FloatLt(op.scores[i], op.scores[j])
(***************************************************************************)
(* Claims about the scoring methods.                                       *)
(***************************************************************************)
IsValidReturned == op.name = "score" /\ op.stage = "is_valid_combination"

\* C11: for an individual of at least 2 members, is_valid_combination returns
\* true exactly when every pair of its members is at least min_distance_km
\* apart: a pair at exactly min_distance_km is accepted, a pair closer by any
\* amount is rejected.
C11_ValidIffApart ==
    IsValidReturned =>
        /\ op.valid[1] <=> PairwiseApart(op.individual)
        /\ (\E i, j \in DOMAIN op.individual :
               /\ i # j
               /\ calculate_distance(all_branches[op.individual[i]],
                                     all_branches[op.individual[j]]) < min_distance_km)
              => ~op.valid[1]

\* C11 witness: an individual of 3 members is accepted with two of them at
\* exactly min_distance_km
C11_Witness ==
    /\ IsValidReturned
    /\ Len(op.individual) = 3
    /\ min_distance_km > 0
    /\ op.valid[1]
    /\ \E i, j \in DOMAIN op.individual :
          calculate_distance(all_branches[op.individual[i]],
                             all_branches[op.individual[j]]) = min_distance_km
DiversityReturned == op.name = "score" /\ op.stage = "calculate_diversity_score"

FitnessReturned == op.name = "score" /\ op.stage = "evaluate_fitness"

\* the mean of the members' income_per_capita is zero
MeanIncomeZero(individual) ==
    SumSeq([i \in DOMAIN individual |->
              all_branches[individual[i]].income_per_capita]) = 0

\* C14: for an individual whose mean income is zero, calculate_diversity_score
\* returns (type diversity + region diversity + 0) / 3, and evaluate_fitness
\* of such an individual, when it is valid, is a number.
C14_ZeroIncomeDefined ==
    /\ (DiversityReturned /\ MeanIncomeZero(op.individual)) =>
          op.diversity = Num((op.parts[1].val + op.parts[2].val + 0) \div 3)
    /\ (FitnessReturned /\ MeanIncomeZero(op.individual)
            /\ PairwiseApart(op.individual)) =>
          op.fitness[1].kind = "num"
\* a number between 0 and 1
InUnit(x) == x.kind = "num" /\ 0 <= x.val /\ x.val <= Scale

\* C19: for every individual of k distinct branches, the type, region and
\* income diversity computed by calculate_diversity_score, and their average,
\* lie in [0,1].
C19_DiversityInUnit ==
    DiversityReturned =>
        /\ \A c \in 1..3 : InUnit(op.parts[c])
        /\ InUnit(op.diversity)
\* C18: is_valid_combination and evaluate_fitness return for every reordering
\* of an individual what they return for the individual.
C18_OrderIndependent ==
    /\ IsValidReturned => op.valid[2] = op.valid[1]
    /\ FitnessReturned => op.fitness[2] = op.fitness[1]
\* the branch at position i of the individual of the call
Member(i) == all_branches[op.individual[i]]

\* C20: for a valid individual, evaluate_fitness returns 0.4 x coverage + 0.3 x
\* diversity + 0.3 x performance, where coverage is the sum over the members of
\* inner_population + 0.5 x outer_population, diversity is the average of the
\* type, region and income diversity (undefined when the income diversity is),
\* and performance is the mean of the members' total_score.
C20_FitnessFormula ==
    (FitnessReturned /\ PairwiseApart(op.individual)) =>
        LET k == Len(op.individual)
            coverage == SumSeq([i \in 1..k |-> Scale * Member(i).inner_population])
                        + (Scale * SumSeq([i \in 1..k |-> Member(i).outer_population])) \div 2
            income == income_diversity(op.individual)
            average == (type_diversity(op.individual) + region_diversity(op.individual)
                        + income.val) \div 3
            performance == FloatSum([i \in 1..k |-> Member(i).total_score]) \div k
        IN  /\ op.scores[1] = Num(coverage)
            /\ op.scores[2] = IF income.kind = "nan" THEN NaN ELSE Num(average)
            /\ op.scores[3] = Num(performance)
            /\ op.fitness[1] =
                  IF income.kind = "nan" THEN NaN
                  ELSE Num((4 * coverage + 3 * average + 3 * performance) \div 10)

\* C20 witness: a valid individual of 3 members, one with an odd outer
\* population, has a numeric fitness
C20_Witness ==
    /\ FitnessReturned
    /\ Len(op.individual) = 3
    /\ min_distance_km > 0
    /\ PairwiseApart(op.individual)
    /\ \E i \in DOMAIN op.individual : Member(i).outer_population % 2 = 1
    /\ op.fitness[1].kind = "num"
(***************************************************************************)
(* Claims about the runs with list objects.                                *)
(***************************************************************************)
\* C16: the list recorded as best_solution has, at every later step of every
\* generation, the members it had when it was recorded; the record changes
\* only when another list is recorded.
C16_BestDecoupled ==
    (op.name = "alias" /\ op.best_solution # 0) =>
        /\ op.heap[op.best_solution] = op.recorded
        /\ op.stage = "done" => op.result = op.recorded

\* C16 witness: the recorded list is also referenced as a parent, and a pair
\* of parents has been crossed over and mutated
C16_Witness ==
    /\ op.name = "alias"
    /\ op.stage = "breed"
    /\ op.best_solution \in Range(op.parents)
    /\ Len(op.new_population) >= 2
    /\ \E r \in Range(op.new_population) : op.heap[r] # op.recorded
====